---- MODULE Spec2Model ----
(***************************************************************************)
(* ViCareClimate (custom_components/vicare/climate.py): the climate entity *)
(* that caches a snapshot of one heating circuit, refreshes it in update() *)
(* and writes through to the vendor circuit in its setters.                *)
(*                                                                         *)
(* Python values are modelled as options: None is the empty sequence and a *)
(* value v is <<v>>.  A dict is a function whose DOMAIN is its key set.    *)
(***************************************************************************)
EXTENDS Integers, Sequences, FiniteSets, TLC

VARIABLES
    _current_temperature,   \* self._current_temperature
    _current_program,       \* self._current_program
    _target_temperature,    \* self._target_temperature
    _current_mode,          \* self._current_mode
    _attributes,            \* self._attributes
    _current_action,        \* self._current_action
    vary,       \* the reads whose answer the device changes in this behaviour
    op,         \* the last operation the host invoked, with its argument
    pending,    \* the mode a set_hvac_mode wrote right before the last update
    answers,    \* what each read of the last update answered ("unread" if not called)
    calls,      \* the vendor write calls the last operation issued, in order
    raised,     \* the exception the last operation raised to its caller
    logged      \* the number of _LOGGER.error calls of the last operation

snapshot == <<_current_temperature, _current_program, _target_temperature,
              _current_mode, _attributes, _current_action>>
trace == <<op, pending, answers, calls, raised, logged>>
vars == <<snapshot, vary, trace>>

----------------------------------------------------------------------------
(* Bounds of the model *)

NumBurners == 2
NumCompressors == 1

----------------------------------------------------------------------------
(* Python values *)

None == <<>>
Some(v) == <<v>>

NoExc == "none"
NotSupported == "PyViCareNotSupportedFeatureError"
ConnectionError == "ConnectionError"
RateLimitError == "PyViCareRateLimitError"
ValueError == "ValueError"
InvalidDataError == "PyViCareInvalidDataError"
KeyError == "KeyError"

\* the except clauses of update
Caught == {ConnectionError, RateLimitError, ValueError, InvalidDataError}

----------------------------------------------------------------------------
(* Vocabulary and translation tables *)

VICARE_MODE_DHW == "dhw"
VICARE_MODE_HEATING == "heating"
VICARE_MODE_DHWANDHEATING == "dhwAndHeating"
VICARE_MODE_DHWANDHEATINGCOOLING == "dhwAndHeatingCooling"
VICARE_MODE_FORCEDREDUCED == "forcedReduced"
VICARE_MODE_FORCEDNORMAL == "forcedNormal"
VICARE_MODE_OFF == "standby"

VICARE_PROGRAM_COMFORT == "comfort"
VICARE_PROGRAM_ECO == "eco"
VICARE_PROGRAM_NORMAL == "normal"

HVAC_MODE_AUTO == "auto"
HVAC_MODE_HEAT == "heat"
HVAC_MODE_OFF == "off"
PRESET_COMFORT == "comfort"
PRESET_ECO == "eco"
CURRENT_HVAC_HEAT == "heating"
CURRENT_HVAC_IDLE == "idle"

\* a faulty variant of the table below: forcedReduced is reported as heating
VICARE_TO_HA_HVAC_HEATING_reduced_heats ==
    (VICARE_MODE_DHW :> HVAC_MODE_OFF)
    @@ (VICARE_MODE_HEATING :> HVAC_MODE_HEAT)
    @@ (VICARE_MODE_DHWANDHEATING :> HVAC_MODE_AUTO)
    @@ (VICARE_MODE_DHWANDHEATINGCOOLING :> HVAC_MODE_AUTO)
    @@ (VICARE_MODE_FORCEDREDUCED :> HVAC_MODE_HEAT)
    @@ (VICARE_MODE_FORCEDNORMAL :> HVAC_MODE_HEAT)
    @@ (VICARE_MODE_OFF :> HVAC_MODE_OFF)

VICARE_TO_HA_HVAC_HEATING ==
    (VICARE_MODE_DHW :> HVAC_MODE_OFF)
    @@ (VICARE_MODE_HEATING :> HVAC_MODE_HEAT)
    @@ (VICARE_MODE_DHWANDHEATING :> HVAC_MODE_AUTO)
    @@ (VICARE_MODE_DHWANDHEATINGCOOLING :> HVAC_MODE_AUTO)
    @@ (VICARE_MODE_FORCEDREDUCED :> HVAC_MODE_OFF)
    @@ (VICARE_MODE_FORCEDNORMAL :> HVAC_MODE_HEAT)
    @@ (VICARE_MODE_OFF :> HVAC_MODE_OFF)

HA_TO_VICARE_HVAC_HEATING ==
    (HVAC_MODE_HEAT :> VICARE_MODE_FORCEDNORMAL)
    @@ (HVAC_MODE_OFF :> VICARE_MODE_FORCEDREDUCED)
    @@ (HVAC_MODE_AUTO :> VICARE_MODE_DHWANDHEATING)

VICARE_TO_HA_PRESET_HEATING ==
    (VICARE_PROGRAM_COMFORT :> PRESET_COMFORT)
    @@ (VICARE_PROGRAM_ECO :> PRESET_ECO)

HA_TO_VICARE_PRESET_HEATING ==
    (PRESET_COMFORT :> VICARE_PROGRAM_COMFORT)
    @@ (PRESET_ECO :> VICARE_PROGRAM_ECO)

\* dict.get(key): None when the key is missing (None itself is never a key here)
DictGet(d, key) ==
    IF key # None /\ key[1] \in DOMAIN d THEN Some(d[key[1]]) ELSE None

\* d[key] = value
DictPut(d, key, value) ==
    [x \in DOMAIN d \cup {key} |-> IF x = key THEN value ELSE d[x]]

\* value in list
InList(value, list) == \E i \in 1..Len(list) : list[i] = value

----------------------------------------------------------------------------
(* The device: the reads of one update, in the order update performs them *)

CircuitReads ==
    << "getRoomTemperature", "getSupplyTemperature", "getActiveProgram",
       "getCurrentDesiredTemperature", "getActiveMode", "getHeatingCurveSlope",
       "getHeatingCurveShift", "getTargetSupplyTemperature", "getModes" >>

Pos(get) == CHOOSE k \in 1..Len(CircuitReads) : CircuitReads[k] = get
BurnerPos(i) == Len(CircuitReads) + i
CompressorPos(j) == Len(CircuitReads) + NumBurners + j
NumReads == Len(CircuitReads) + NumBurners + NumCompressors
Reads == 1..NumReads

Ok(v) == [kind |-> "ok", val |-> Some(v)]
ReturnsNone == [kind |-> "ok", val |-> None]
Fails(e) == [kind |-> e, val |-> None]
Unread == [kind |-> "unread", val |-> None]

\* the values a read may return
Values(k) ==
    CASE k = Pos("getRoomTemperature") -> {0, 21}
      [] k = Pos("getSupplyTemperature") -> {45}
      [] k = Pos("getActiveProgram") ->
            {VICARE_PROGRAM_NORMAL, VICARE_PROGRAM_COMFORT, VICARE_PROGRAM_ECO}
      [] k = Pos("getCurrentDesiredTemperature") -> {20, 22}
      [] k = Pos("getActiveMode") -> DOMAIN VICARE_TO_HA_HVAC_HEATING
      [] k = Pos("getHeatingCurveSlope") -> {14}
      [] k = Pos("getHeatingCurveShift") -> {0, 2}
      [] k = Pos("getTargetSupplyTemperature") -> {50}
      [] k = Pos("getModes") ->
            { <<VICARE_MODE_DHW, VICARE_MODE_HEATING>>,
              <<VICARE_MODE_OFF, VICARE_MODE_DHWANDHEATING, VICARE_MODE_FORCEDNORMAL>> }
      [] OTHER -> BOOLEAN

\* every read may return a value, signal "not supported", or fail; update
\* tests the two temperatures against None, so these may also return None
Outcomes(k) ==
    {Ok(v) : v \in Values(k)}
    \cup (IF k \in {Pos("getRoomTemperature"), Pos("getSupplyTemperature")}
          THEN {ReturnsNone} ELSE {})
    \cup {Fails(e) : e \in {NotSupported} \cup Caught}

\* what a read answers while the device does not vary it
Nominal(k) ==
    CASE k = Pos("getRoomTemperature") -> Fails(NotSupported)
      [] k = Pos("getSupplyTemperature") -> Ok(45)
      [] k = Pos("getActiveProgram") -> Ok(VICARE_PROGRAM_NORMAL)
      [] k = Pos("getCurrentDesiredTemperature") -> Ok(20)
      [] k = Pos("getActiveMode") -> Ok(VICARE_MODE_DHWANDHEATING)
      [] k = Pos("getHeatingCurveSlope") -> Ok(14)
      [] k = Pos("getHeatingCurveShift") -> Ok(0)
      [] k = Pos("getTargetSupplyTemperature") -> Ok(50)
      [] k = Pos("getModes") -> Ok(<<VICARE_MODE_DHW, VICARE_MODE_HEATING>>)
      [] OTHER -> Ok(FALSE)

NominalAnswers == [k \in Reads |-> Nominal(k)]

\* The answers to one update when the device varies the reads in V.  A failing
\* read ends the update, so the reads behind it are never called: they are
\* left nominal.
RECURSIVE Vary(_)
Vary(V) ==
    IF V = {} THEN {NominalAnswers}
    ELSE LET k == CHOOSE x \in V : \A y \in V : x <= y
         IN  { [f EXCEPT ![k] = x] :
                   f \in Vary(V \ {k}), x \in {y \in Outcomes(k) : y.kind \notin Caught} }
             \cup { [NominalAnswers EXCEPT ![k] = Fails(e)] : e \in Caught }

\* The reads that answer for one feature of the device.  In one behaviour the
\* device varies the answers of one feature; every other read answers nominal.
Features ==
    { {Pos("getRoomTemperature"), Pos("getSupplyTemperature")},
      {Pos("getActiveProgram"), Pos("getCurrentDesiredTemperature")},
      {Pos("getActiveMode")},
      {Pos("getModes")},
      {Pos("getHeatingCurveSlope"), Pos("getHeatingCurveShift")},
      {Pos("getTargetSupplyTemperature")},
      {BurnerPos(i) : i \in 1..NumBurners},
      {CompressorPos(j) : j \in 1..NumCompressors} }

----------
(* update *)

Frame ==
    [ current_temperature |-> _current_temperature,
      current_program |-> _current_program,
      target_temperature |-> _target_temperature,
      current_mode |-> _current_mode,
      attributes |-> _attributes,
      current_action |-> _current_action,
      room_temperature |-> None,
      supply_temperature |-> None,
      performed |-> {},
      exc |-> NoExc,
      logged |-> 0 ]

\* a statement is skipped while an exception propagates
Stmt(s, t) == IF s.exc # NoExc THEN s ELSE t

\* with suppress(PyViCareNotSupportedFeatureError): <field> = <read k>()
SuppressedRead(s, k, o, field) ==
    IF s.exc # NoExc THEN s
    ELSE LET t == [s EXCEPT !.performed = @ \cup {k}]
         IN  CASE o[k].kind = "ok" -> [t EXCEPT ![field] = o[k].val]
               [] o[k].kind = NotSupported -> t
               [] OTHER -> [t EXCEPT !.exc = o[k].kind]

\* with suppress(PyViCareNotSupportedFeatureError): self._attributes[key] = <read k>()
SuppressedReadAttribute(s, k, o, key) ==
    IF s.exc # NoExc THEN s
    ELSE LET t == [s EXCEPT !.performed = @ \cup {k}]
         IN  CASE o[k].kind = "ok" ->
                    [t EXCEPT !.attributes = DictPut(@, key, o[k].val)]
               [] o[k].kind = NotSupported -> t
               [] OTHER -> [t EXCEPT !.exc = o[k].kind]

\* self._attributes[key] = <read k>(), outside any suppress
ReadAttribute(s, k, o, key) ==
    IF s.exc # NoExc THEN s
    ELSE LET t == [s EXCEPT !.performed = @ \cup {k}]
         IN  IF o[k].kind = "ok"
             THEN [t EXCEPT !.attributes = DictPut(@, key, o[k].val)]
             ELSE [t EXCEPT !.exc = o[k].kind]

\* a faulty variant: "if _room_temperature:" for "is not None" (0 degrees is falsy)
ResolveCurrentTemperature_truthy(s) ==
    IF s.room_temperature # None /\ s.room_temperature # Some(0)
    THEN [s EXCEPT !.current_temperature = s.room_temperature]
    ELSE IF s.supply_temperature # None /\ s.supply_temperature # Some(0)
    THEN [s EXCEPT !.current_temperature = s.supply_temperature]
    ELSE [s EXCEPT !.current_temperature = None]

ResolveCurrentTemperature(s) ==
    IF s.room_temperature # None
    THEN [s EXCEPT !.current_temperature = s.room_temperature]
    ELSE IF s.supply_temperature # None
    THEN [s EXCEPT !.current_temperature = s.supply_temperature]
    ELSE [s EXCEPT !.current_temperature = None]

GenericAttributes(s) ==
    [s EXCEPT !.attributes =
        DictPut(DictPut(DictPut(<<>>,
            "room_temperature", s.room_temperature),
            "active_vicare_program", s.current_program),
            "active_vicare_mode", s.current_mode)]

\* a faulty variant: "action = unit.getActive()", the last unit read decides
RECURSIVE ActiveLoop_overwrite(_, _, _, _, _)
ActiveLoop_overwrite(s, o, first, i, n) ==
    IF s.exc # NoExc \/ i > n THEN s
    ELSE LET k == first + i
             t == [s EXCEPT !.performed = @ \cup {k}]
         IN  CASE o[k].kind = "ok" ->
                    ActiveLoop_overwrite([t EXCEPT !.current_action = o[k].val],
                                         o, first, i + 1, n)
               [] o[k].kind = NotSupported -> t
               [] OTHER -> [t EXCEPT !.exc = o[k].kind]

\* with suppress(...): for unit in units: action = action or unit.getActive()
RECURSIVE ActiveLoop(_, _, _, _, _)
ActiveLoop(s, o, first, i, n) ==
    IF s.exc # NoExc \/ i > n THEN s
    ELSE IF s.current_action = Some(TRUE)
    THEN ActiveLoop(s, o, first, i + 1, n)
    ELSE LET k == first + i
             t == [s EXCEPT !.performed = @ \cup {k}]
         IN  CASE o[k].kind = "ok" ->
                    ActiveLoop([t EXCEPT !.current_action = o[k].val], o, first, i + 1, n)
               [] o[k].kind = NotSupported -> t
               [] OTHER -> [t EXCEPT !.exc = o[k].kind]

\* the except clauses: the four caught classes are logged, anything else propagates
Handlers(s) ==
    IF s.exc \in Caught THEN [s EXCEPT !.exc = NoExc, !.logged = @ + 1] ELSE s

Poll(o) ==
    LET s1 == SuppressedRead(Frame, Pos("getRoomTemperature"), o, "room_temperature")
        s2 == SuppressedRead(s1, Pos("getSupplyTemperature"), o, "supply_temperature")
        s3 == Stmt(s2, ResolveCurrentTemperature(s2))
        s4 == SuppressedRead(s3, Pos("getActiveProgram"), o, "current_program")
        s5 == SuppressedRead(s4, Pos("getCurrentDesiredTemperature"), o,
                             "target_temperature")
        s6 == SuppressedRead(s5, Pos("getActiveMode"), o, "current_mode")
        s7 == Stmt(s6, GenericAttributes(s6))
        s8 == SuppressedReadAttribute(s7, Pos("getHeatingCurveSlope"), o,
                                      "heating_curve_slope")
        s9 == SuppressedReadAttribute(s8, Pos("getHeatingCurveShift"), o,
                                      "heating_curve_shift")
        s10 == SuppressedReadAttribute(s9, Pos("getTargetSupplyTemperature"), o,
                                       "target_supply_temperature")
        s11 == ReadAttribute(s10, Pos("getModes"), o, "vicare_modes")
        s12 == Stmt(s11, [s11 EXCEPT !.current_action = Some(FALSE)])
        s13 == ActiveLoop(s12, o, BurnerPos(0), 1, NumBurners)
        s14 == ActiveLoop(s13, o, CompressorPos(0), 1, NumCompressors)
    IN  Handlers(s14)

update(o) ==
    \E s \in {Poll(o)} :
        /\ _current_temperature' = s.current_temperature
        /\ _current_program' = s.current_program
        /\ _target_temperature' = s.target_temperature
        /\ _current_mode' = s.current_mode
        /\ _attributes' = s.attributes
        /\ _current_action' = s.current_action
        /\ op' = [name |-> "update", arg |-> None]
        /\ pending' = IF op.name = "set_hvac_mode" /\ raised = NoExc
                      THEN Some([hvac_mode |-> op.arg[1], vicare_mode |-> calls[1].a1[1]])
                      ELSE None
        /\ answers' = [k \in Reads |-> IF k \in s.performed THEN o[k] ELSE Unread]
        /\ calls' = <<>>
        /\ raised' = s.exc
        /\ logged' = s.logged
        /\ UNCHANGED vary

----------------------------------------------------------------------------
(* Read accessors *)

current_temperature == _current_temperature
target_temperature == _target_temperature
hvac_mode == DictGet(VICARE_TO_HA_HVAC_HEATING, _current_mode)
hvac_modes == DOMAIN HA_TO_VICARE_HVAC_HEATING
hvac_action ==
    IF _current_action = Some(TRUE) THEN CURRENT_HVAC_HEAT ELSE CURRENT_HVAC_IDLE
preset_mode == DictGet(VICARE_TO_HA_PRESET_HEATING, _current_program)
preset_modes == DOMAIN VICARE_TO_HA_PRESET_HEATING
extra_state_attributes == _attributes

----------------------------------------------------------------------------
(* Setters.  A vendor write either returns ("ok") or raises; the setters   *)
(* catch nothing, so what a write raises reaches the caller.               *)

\* the setters treat every exception of a write alike: two classes stand for all
WriteOutcomes == {"ok", ConnectionError, ValueError}

\* one vendor write: the method, its arguments and how it ended
Call(fn, a1, a2, w) == [fn |-> fn, a1 |-> a1, a2 |-> a2, out |-> w]

\* a faulty variant: the setter also caches the mode it wrote
set_hvac_mode_cached(mode, w) ==
    LET vicare_mode == DictGet(HA_TO_VICARE_HVAC_HEATING, Some(mode))
    IN  /\ op' = [name |-> "set_hvac_mode", arg |-> Some(mode)]
        /\ pending' = None
        /\ IF vicare_mode = None
           THEN /\ raised' = ValueError
                /\ calls' = <<>>
                /\ UNCHANGED _current_mode
           ELSE /\ calls' = << Call("setMode", vicare_mode, None, w) >>
                /\ raised' = IF w = "ok" THEN NoExc ELSE w
                /\ _current_mode' = IF w = "ok" THEN vicare_mode ELSE _current_mode
        /\ answers' = [k \in Reads |-> Unread]
        /\ logged' = 0
        /\ UNCHANGED <<_current_temperature, _current_program, _target_temperature,
                       _attributes, _current_action, vary>>

set_hvac_mode(mode, w) ==
    LET vicare_mode == DictGet(HA_TO_VICARE_HVAC_HEATING, Some(mode))
    IN  /\ op' = [name |-> "set_hvac_mode", arg |-> Some(mode)]
        /\ pending' = None
        /\ IF vicare_mode = None
           THEN /\ raised' = ValueError
                /\ calls' = <<>>
           ELSE /\ calls' = << Call("setMode", vicare_mode, None, w) >>
                /\ raised' = IF w = "ok" THEN NoExc ELSE w
        /\ answers' = [k \in Reads |-> Unread]
        /\ logged' = 0
        /\ UNCHANGED <<snapshot, vary>>

\* a faulty variant: the setter writes through but does not cache the target
set_temperature_uncached(temp, w) ==
    /\ op' = [name |-> "set_temperature", arg |-> temp]
    /\ pending' = None
    /\ IF temp # None
       THEN /\ calls' = << Call("setProgramTemperature", _current_program, temp, w) >>
            /\ raised' = IF w = "ok" THEN NoExc ELSE w
       ELSE /\ calls' = <<>>
            /\ raised' = NoExc
    /\ answers' = [k \in Reads |-> Unread]
    /\ logged' = 0
    /\ UNCHANGED <<snapshot, vary>>

set_temperature(temp, w) ==
    /\ op' = [name |-> "set_temperature", arg |-> temp]
    /\ pending' = None
    /\ IF temp # None
       THEN /\ calls' = << Call("setProgramTemperature", _current_program, temp, w) >>
            /\ IF w = "ok"
               THEN /\ _target_temperature' = temp
                    /\ raised' = NoExc
               ELSE /\ raised' = w
                    /\ UNCHANGED _target_temperature
       ELSE /\ calls' = <<>>
            /\ raised' = NoExc
            /\ UNCHANGED _target_temperature
    /\ answers' = [k \in Reads |-> Unread]
    /\ logged' = 0
    /\ UNCHANGED <<_current_temperature, _current_program, _current_mode,
                   _attributes, _current_action, vary>>

\* a faulty variant: the new program is activated before the old one is deactivated
set_preset_mode_swapped(preset, w1, w2) ==
    LET vicare_program == DictGet(HA_TO_VICARE_PRESET_HEATING, Some(preset))
    IN  /\ op' = [name |-> "set_preset_mode", arg |-> Some(preset)]
        /\ pending' = None
        /\ IF vicare_program = None
           THEN /\ raised' = ValueError
                /\ calls' = <<>>
           ELSE IF w1 # "ok"
           THEN /\ calls' = << Call("activateProgram", vicare_program, None, w1) >>
                /\ raised' = w1
           ELSE /\ calls' = << Call("activateProgram", vicare_program, None, w1),
                               Call("deactivateProgram", _current_program, None, w2) >>
                /\ raised' = IF w2 = "ok" THEN NoExc ELSE w2
        /\ answers' = [k \in Reads |-> Unread]
        /\ logged' = 0
        /\ UNCHANGED <<snapshot, vary>>

set_preset_mode(preset, w1, w2) ==
    LET vicare_program == DictGet(HA_TO_VICARE_PRESET_HEATING, Some(preset))
    IN  /\ op' = [name |-> "set_preset_mode", arg |-> Some(preset)]
        /\ pending' = None
        /\ IF vicare_program = None
           THEN /\ raised' = ValueError
                /\ calls' = <<>>
           ELSE IF w1 # "ok"
           THEN /\ calls' = << Call("deactivateProgram", _current_program, None, w1) >>
                /\ raised' = w1
           ELSE /\ calls' = << Call("deactivateProgram", _current_program, None, w1),
                               Call("activateProgram", vicare_program, None, w2) >>
                /\ raised' = IF w2 = "ok" THEN NoExc ELSE w2
        /\ answers' = [k \in Reads |-> Unread]
        /\ logged' = 0
        /\ UNCHANGED <<snapshot, vary>>

set_vicare_mode(vicare_mode, w) ==
    /\ op' = [name |-> "set_vicare_mode", arg |-> Some(vicare_mode)]
    /\ pending' = None
    /\ IF "vicare_modes" \notin DOMAIN _attributes
       THEN /\ raised' = KeyError
            /\ calls' = <<>>
       ELSE IF ~InList(vicare_mode, _attributes["vicare_modes"][1])
       THEN /\ raised' = ValueError
            /\ calls' = <<>>
       ELSE /\ calls' = << Call("setMode", Some(vicare_mode), None, w) >>
            /\ raised' = IF w = "ok" THEN NoExc ELSE w
    /\ answers' = [k \in Reads |-> Unread]
    /\ logged' = 0
    /\ UNCHANGED <<snapshot, vary>>

----------------------------------------------------------------------------
(* The host *)

HvacModeArgs == hvac_modes \cup {"cool"}
PresetArgs == preset_modes \cup {"away"}
TemperatureArgs == {None, Some(23)}
VicareModeArgs == {VICARE_MODE_DHW, VICARE_MODE_FORCEDNORMAL, "bogus"}

Init ==
    /\ _attributes = <<>>
    /\ _target_temperature = None
    /\ _current_mode = None
    /\ _current_temperature = None
    /\ _current_program = None
    /\ _current_action = None
    /\ vary \in Features
    /\ op = [name |-> "__init__", arg |-> None]
    /\ pending = None
    /\ answers = [k \in Reads |-> Unread]
    /\ calls = <<>>
    /\ raised = NoExc
    /\ logged = 0

\* a write outcome is drawn only where the setter reaches the write
HostUpdate == \E o \in Vary(vary) : update(o)

HostSetHvacMode ==
    \E m \in HvacModeArgs, w \in WriteOutcomes :
        /\ m \notin DOMAIN HA_TO_VICARE_HVAC_HEATING => w = "ok"
        /\ set_hvac_mode(m, w)

HostSetTemperature ==
    \E t \in TemperatureArgs, w \in WriteOutcomes :
        /\ t = None => w = "ok"
        /\ set_temperature(t, w)

HostSetPresetMode ==
    \E p \in PresetArgs, w1 \in WriteOutcomes, w2 \in WriteOutcomes :
        /\ p \notin DOMAIN HA_TO_VICARE_PRESET_HEATING => w1 = "ok"
        /\ w1 # "ok" => w2 = "ok"
        /\ set_preset_mode(p, w1, w2)

HostSetVicareMode ==
    \E m \in VicareModeArgs, w \in WriteOutcomes : set_vicare_mode(m, w)

Next ==
    \/ HostUpdate
    \/ HostSetHvacMode
    \/ HostSetTemperature
    \/ HostSetPresetMode
    \/ HostSetVicareMode

Spec == Init /\ [][Next]_vars

----------------------------------------------------------------------------
(* Vocabulary of the properties *)

Polled == op.name = "update"
Failed(k) == answers[k].kind \in Caught
Unsupported(k) == answers[k].kind = NotSupported
Returned(k) == answers[k].kind = "ok"
\* the read returned a value other than None
Obtained(k) == Returned(k) /\ answers[k].val # None
\* the update was ended by one of the four caught classes
Aborted == Polled /\ \E k \in Reads : Failed(k)
\* the update ran through its last statement
Completed == Polled /\ raised = NoExc /\ ~Aborted

Units == {k \in Reads : k > Len(CircuitReads)}
\* "action or unit.getActive()" does not call getActive once action is true
ShortCircuited(j) == j \in Units /\ \E i \in Units : i < j /\ answers[i] = Ok(TRUE)

\* the entry of a dict: None when the key is missing
EntryOf(d, key) == IF key \in DOMAIN d THEN Some(d[key]) ELSE None
\* a missing key and a None value are both "null"
Null(d, key) == key \in DOMAIN d => d[key] = None

----------------------------------------------------------------------------
(* C1: in an update, a read that signals "feature not supported" never     *)
(* makes update raise to its caller, and every read behind it in the poll  *)
(* order is still performed (unless a later read fails with a caught       *)
(* class, or the "or" skips an activity read after an active unit).        *)
C1_UnsupportedNeverEndsPoll ==
    Polled =>
        \A k \in Reads : Unsupported(k) =>
            /\ raised = NoExc
            /\ \A j \in Reads :
                  (j > k /\ ~ShortCircuited(j) /\ ~\E i \in Reads : i < j /\ Failed(i))
                      => answers[j].kind # "unread"

(* C2: an update whose read k fails with one of the four caught classes    *)
(* logs exactly one error, raises nothing, performs no further read, keeps  *)
(* the newly read value in every field assigned before read k, and leaves   *)
(* every field assigned behind read k (the attribute entries and the        *)
(* activity flag included) as it was before the update.                     *)
C2_AbortKeepsLaterFields ==
    [][ \A k \in Reads :
          (op'.name = "update" /\ answers'[k].kind \in Caught) =>
            /\ logged' = 1
            /\ raised' = NoExc
            /\ \A j \in Reads : j > k => answers'[j] = Unread
            \* assigned before the failing read: the new value
            /\ (k > Pos("getSupplyTemperature")) =>
                  _current_temperature' =
                      IF answers'[Pos("getRoomTemperature")].val # None
                      THEN answers'[Pos("getRoomTemperature")].val
                      ELSE answers'[Pos("getSupplyTemperature")].val
            /\ (k > Pos("getActiveProgram")
                  /\ answers'[Pos("getActiveProgram")].kind = "ok") =>
                  _current_program' = answers'[Pos("getActiveProgram")].val
            /\ (k > Pos("getCurrentDesiredTemperature")
                  /\ answers'[Pos("getCurrentDesiredTemperature")].kind = "ok") =>
                  _target_temperature' = answers'[Pos("getCurrentDesiredTemperature")].val
            /\ (k > Pos("getActiveMode")
                  /\ answers'[Pos("getActiveMode")].kind = "ok") =>
                  _current_mode' = answers'[Pos("getActiveMode")].val
            \* assigned behind the failing read: the value before the update
            /\ (k <= Pos("getSupplyTemperature")) =>
                  _current_temperature' = _current_temperature
            /\ (k <= Pos("getActiveProgram")) => _current_program' = _current_program
            /\ (k <= Pos("getCurrentDesiredTemperature")) =>
                  _target_temperature' = _target_temperature
            /\ (k <= Pos("getActiveMode")) => _current_mode' = _current_mode
            /\ (k <= Pos("getHeatingCurveSlope")) =>
                  EntryOf(_attributes', "heating_curve_slope")
                      = EntryOf(_attributes, "heating_curve_slope")
            /\ (k <= Pos("getHeatingCurveShift")) =>
                  EntryOf(_attributes', "heating_curve_shift")
                      = EntryOf(_attributes, "heating_curve_shift")
            /\ (k <= Pos("getTargetSupplyTemperature")) =>
                  EntryOf(_attributes', "target_supply_temperature")
                      = EntryOf(_attributes, "target_supply_temperature")
            /\ (k <= Pos("getModes")) =>
                  /\ EntryOf(_attributes', "vicare_modes")
                        = EntryOf(_attributes, "vicare_modes")
                  /\ _current_action' = _current_action
      ]_vars

(* C3: after an update that no caught class aborted, every snapshot field  *)
(* whose read signalled "not supported" in that update is null, whatever    *)
(* it held before.                                                          *)
C3_UnsupportedFieldIsNull ==
    (Polled /\ ~Aborted) =>
        /\ (Unsupported(Pos("getRoomTemperature"))
              /\ Unsupported(Pos("getSupplyTemperature"))) => _current_temperature = None
        /\ Unsupported(Pos("getActiveProgram")) => _current_program = None
        /\ Unsupported(Pos("getCurrentDesiredTemperature")) => _target_temperature = None
        /\ Unsupported(Pos("getActiveMode")) => _current_mode = None
        /\ Unsupported(Pos("getRoomTemperature")) => Null(_attributes, "room_temperature")
        /\ Unsupported(Pos("getActiveProgram")) => Null(_attributes, "active_vicare_program")
        /\ Unsupported(Pos("getActiveMode")) => Null(_attributes, "active_vicare_mode")
        /\ Unsupported(Pos("getHeatingCurveSlope")) => Null(_attributes, "heating_curve_slope")
        /\ Unsupported(Pos("getHeatingCurveShift")) => Null(_attributes, "heating_curve_shift")
        /\ Unsupported(Pos("getTargetSupplyTemperature"))
              => Null(_attributes, "target_supply_temperature")
        /\ Unsupported(Pos("getModes")) => Null(_attributes, "vicare_modes")

\* the cached list of vendor modes; no cached list holds no mode
CachedModes ==
    IF "vicare_modes" \in DOMAIN _attributes /\ _attributes["vicare_modes"] # None
    THEN _attributes["vicare_modes"][1] ELSE <<>>

(* C4: in every reachable state, set_vicare_mode(m) with m not in the      *)
(* cached list of vendor modes raises the invalid-argument error            *)
(* (ValueError, as set_hvac_mode and set_preset_mode do) and issues no      *)
(* setMode; with m in the cached list it issues exactly one setMode(m).     *)
C4_VicareModeValidated ==
    op.name = "set_vicare_mode" =>
        IF InList(op.arg[1], CachedModes)
        THEN /\ Len(calls) = 1
             /\ calls[1].fn = "setMode"
             /\ calls[1].a1 = op.arg
        ELSE /\ raised = ValueError
             /\ calls = <<>>

(* C5: set_preset_mode(p) with p not in {comfort, eco} raises ValueError   *)
(* and issues no vendor call; otherwise it issues deactivateProgram(cached *)
(* active program) first and then activateProgram(program of p), and the   *)
(* activate call is issued exactly when the deactivate call returned.      *)
C5_PresetDeactivateThenActivate ==
    op.name = "set_preset_mode" =>
        IF op.arg \notin {Some(PRESET_COMFORT), Some(PRESET_ECO)}
        THEN /\ raised = ValueError
             /\ calls = <<>>
        ELSE /\ Len(calls) \in {1, 2}
             /\ calls[1].fn = "deactivateProgram"
             /\ calls[1].a1 = _current_program
             /\ calls[1].out = "ok" => Len(calls) = 2
             /\ calls[1].out # "ok" => (Len(calls) = 1 /\ raised = calls[1].out)
             /\ Len(calls) = 2 =>
                   /\ calls[2].fn = "activateProgram"
                   /\ calls[2].a1 = IF op.arg = Some(PRESET_COMFORT)
                                    THEN Some("comfort") ELSE Some("eco")
                   /\ raised = IF calls[2].out = "ok" THEN NoExc ELSE calls[2].out

C5_Witness ==
    /\ op.name = "set_preset_mode"
    /\ op.arg = Some(PRESET_COMFORT)
    /\ _current_program = Some(VICARE_PROGRAM_ECO)
    /\ Len(calls) = 2
    /\ raised = NoExc

(* C6: set_hvac_mode(g) with g not in {heat, off, auto} raises ValueError  *)
(* and writes nothing; otherwise it issues exactly one setMode with the    *)
(* vendor mode of g (heat: forcedNormal, off: forcedReduced, auto:         *)
(* dhwAndHeating); either way the cached vendor mode, and so hvac_mode,    *)
(* is what it was before the call.                                          *)
C6_SetHvacModeWritesThrough ==
    [][ op'.name = "set_hvac_mode" =>
          /\ IF op'.arg \notin {Some("heat"), Some("off"), Some("auto")}
             THEN /\ raised' = ValueError
                  /\ calls' = <<>>
             ELSE /\ Len(calls') = 1
                  /\ calls'[1].fn = "setMode"
                  /\ calls'[1].a1 =
                        CASE op'.arg = Some("heat") -> Some("forcedNormal")
                          [] op'.arg = Some("off") -> Some("forcedReduced")
                          [] op'.arg = Some("auto") -> Some("dhwAndHeating")
          /\ _current_mode' = _current_mode
          /\ hvac_mode' = hvac_mode
      ]_vars

C6_Witness ==
    /\ op.name = "set_hvac_mode"
    /\ op.arg = Some(HVAC_MODE_HEAT)
    /\ raised = NoExc
    /\ calls # <<>>
    /\ hvac_mode = Some(HVAC_MODE_OFF)

(* C7: set_temperature with a temperature t issues exactly one             *)
(* setProgramTemperature(cached active program, t) and, when that call     *)
(* returns, the cached target temperature is t at once; without a          *)
(* temperature it writes nothing and the cached target is unchanged.       *)
C7_SetTemperatureCaches ==
    [][ op'.name = "set_temperature" =>
          IF op'.arg # None
          THEN /\ Len(calls') = 1
               /\ calls'[1].fn = "setProgramTemperature"
               /\ calls'[1].a1 = _current_program
               /\ calls'[1].a2 = op'.arg
               /\ calls'[1].out = "ok" =>
                     (_target_temperature' = op'.arg /\ raised' = NoExc)
          ELSE /\ calls' = <<>>
               /\ _target_temperature' = _target_temperature
      ]_vars

C7_Witness ==
    /\ op.name = "set_temperature"
    /\ op.arg = Some(23)
    /\ raised = NoExc
    /\ Len(calls) = 1
    /\ calls[1].a1 = Some(VICARE_PROGRAM_COMFORT)
    /\ _target_temperature = Some(23)

(* C8: after an update in which the room and the supply temperature read   *)
(* each returned or signalled "not supported", the cached current          *)
(* temperature is the room value if one was obtained (0 degrees is a       *)
(* value, None is not), else the supply value if one was obtained, else    *)
(* null.                                                                    *)
C8_RoomBeforeSupply ==
    ( /\ Polled
      /\ answers[Pos("getRoomTemperature")].kind \in {"ok", NotSupported}
      /\ answers[Pos("getSupplyTemperature")].kind \in {"ok", NotSupported} ) =>
        _current_temperature =
            IF Obtained(Pos("getRoomTemperature"))
            THEN answers[Pos("getRoomTemperature")].val
            ELSE IF Obtained(Pos("getSupplyTemperature"))
            THEN answers[Pos("getSupplyTemperature")].val
            ELSE None

C8_Witness ==
    /\ Polled
    /\ answers[Pos("getRoomTemperature")] = Ok(0)
    /\ answers[Pos("getSupplyTemperature")] = Ok(45)
    /\ _current_temperature = Some(0)

(* C9: after an update that ran to completion with no activity read        *)
(* signalling "not supported", hvac_action is "heating" exactly when some  *)
(* burner or compressor reported active in that update, and "idle"         *)
(* otherwise; hvac_action is never "off".                                   *)
C9_HeatingIffSomeUnitActive ==
    /\ hvac_action \in {CURRENT_HVAC_HEAT, CURRENT_HVAC_IDLE}
    /\ hvac_action # "off"
    /\ (Completed /\ \A k \in Units : ~Unsupported(k)) =>
          /\ hvac_action = CURRENT_HVAC_HEAT <=> \E k \in Units : answers[k] = Ok(TRUE)
          /\ hvac_action = CURRENT_HVAC_IDLE <=> \A k \in Units : answers[k] # Ok(TRUE)

C9_Witness ==
    /\ Completed
    /\ answers[BurnerPos(1)] = Ok(FALSE)
    /\ answers[BurnerPos(2)] = Ok(TRUE)
    /\ hvac_action = CURRENT_HVAC_HEAT

(* C10: when set_hvac_mode(g) succeeded and the update right after it runs *)
(* to completion and reads back the vendor mode that was written,          *)
(* hvac_mode is g; the other way round, vendor to generic to vendor, is    *)
(* not the identity.                                                        *)
C10_GenericModeRoundTrip ==
    /\ (Completed /\ pending # None
          /\ answers[Pos("getActiveMode")] = Ok(pending[1].vicare_mode))
          => hvac_mode = Some(pending[1].hvac_mode)
    /\ \E v \in DOMAIN VICARE_TO_HA_HVAC_HEATING :
          HA_TO_VICARE_HVAC_HEATING[VICARE_TO_HA_HVAC_HEATING[v]] # v

C10_Witness ==
    /\ Completed
    /\ pending # None
    /\ pending[1].hvac_mode = HVAC_MODE_OFF
    /\ answers[Pos("getActiveMode")] = Ok(VICARE_MODE_FORCEDREDUCED)
    /\ hvac_mode = Some(HVAC_MODE_OFF)

====
